---- MODULE Spec2Model ----
(***************************************************************************)
(* visualize_convergence.py: a log tailer thread (DataSource), a curses    *)
(* renderer thread (CURSESDisplay) and the __main__ controller, together   *)
(* with the log file they watch and the producer that writes it.           *)
(*                                                                         *)
(* Energies are floats in the program; here a float x is the integer 10*x  *)
(* (-1.5 is -15), which is exact for every literal the model writes.       *)
(* A text line is the sequence of its tokens, a complete line ending with  *)
(* the newline token; readline() at end of file is the empty sequence ''.  *)
(* A Python Optional is a sequence of length 0 (None) or 1 (the value).    *)
(***************************************************************************)
EXTENDS Integers, Sequences, FiniteSets, TLC

VARIABLES
    path,            \* directory entry fname: inode number, or 0 when absent
    inodes,          \* inode number -> [lines, nlink], every file ever created
    file,            \* DataSource.file: inode the handle is open on, 0 = None
    pos,             \* read offset of DataSource.file: whole lines read
    col,             \* read offset: tokens read of the line after those
    line,            \* local `line` of DataSource.run
    logs,            \* DataSource.logs: <<>> = None, <<runs>> otherwise
    data_running,    \* DataSource.running
    dataPc,          \* DataSource thread: new, started, loop, done, raised
    ui_running,      \* CURSESDisplay.running
    uiPc,            \* CURSESDisplay thread: new, started, loop, done, raised
    numerical_markers, \* CURSESDisplay.numerical_markers
    statsWin,        \* what draw_stats last put in the stats window
    graphWin,        \* what draw_graphs last plotted in the graph window
    plot,            \* draw_graphs in progress: None, or its loop state
    mainPc,          \* __main__: line it is about to execute
    sigint,          \* installed SIGINT handler: default, die, SIG_DFL
    stdin_isatty,    \* sys.stdin.isatty()
    argv_given,      \* len(sys.argv) > 1
    fname            \* fname of __main__: unset, path, error (get_fname's r)

vars == <<path, inodes, file, pos, col, line, logs, data_running, dataPc,
          ui_running, uiPc, numerical_markers, statsWin, graphWin, plot,
          mainPc, sigint, stdin_isatty, argv_given, fname>>

fsVars   == <<path, inodes>>
dataVars == <<file, pos, col, line, logs, dataPc>>
uiVars   == <<ui_running, uiPc, numerical_markers, statsWin, graphWin, plot>>
startVars == <<stdin_isatty, argv_given, fname>>
ctlVars  == <<mainPc, sigint, startVars>>

----------------------------------------------------------------------------
(* Bounds *)

MaxLines == 3      \* lines held by the files of the tailer specification
MaxFiles == 2      \* files the producer creates at the path
MaxSignLines == 3  \* lines of the file in the statistics specification
MaxCtlLines == 1   \* lines of the file in the shutdown specification
MaxTruncLines == 3 \* lines of the file in the truncation specification
MaxChunkLines == 2 \* lines of the file in the chunked-write specification
MaxAllLines == 2   \* lines held by the files of the whole-program specification
MaxRaceLines == 2  \* lines held by the files of the interleaving specification
MaxReplaceLines == 3 \* lines held by the files of the replacement specification

----------------------------------------------------------------------------
(* Python values *)

None == <<>>
Some(x) == <<x>>
NoFile == 0

Num(n) == [t |-> "num", v |-> n]
Str(s) == [t |-> "str", v |-> s]
IsNum(x) == x.t = "num"

NL == "\n"

(* Every sample of a run list, run after run *)
RECURSIVE Flatten(_)
Flatten(runs) ==
    IF runs = <<>> THEN <<>> ELSE runs[1] \o Flatten(Tail(runs))

Samples(lg) == IF lg = None THEN <<>> ELSE Flatten(lg[1])

(* The literal tokens and the value ast.literal_eval gives each. *)
LiteralTokens ==
    {"-1.0", "-1.5", "-0.9", "0.5", "3", "'energy'", "'iter'", "'abc'"}

LiteralValue(tok) ==
    CASE tok = "-1.0" -> Num(-10)
      [] tok = "-1.5" -> Num(-15)
      [] tok = "-0.9" -> Num(-9)
      [] tok = "0.5"  -> Num(5)
      [] tok = "3"    -> Num(30)
      [] tok = "'energy'" -> Str("energy")
      [] tok = "'iter'"   -> Str("iter")
      [] tok = "'abc'"    -> Str("abc")

startswith(l, c) == Len(l) > 0 /\ l[1] = c

(* The line without its trailing newline. *)
StripNL(l) ==
    IF Len(l) > 0 /\ l[Len(l)] = NL THEN SubSeq(l, 1, Len(l) - 1) ELSE l

(* ast.literal_eval on a line that starts with '{': a dict display           *)
(* '{' [key ':' value (',' key ':' value)*] '}' of literals, anything else   *)
(* raises (SyntaxError / ValueError).                                        *)
DictBody(l) == SubSeq(StripNL(l), 2, Len(StripNL(l)) - 1)

WellFormed(l) ==
    LET s == StripNL(l)
        b == DictBody(l)
        n == Len(b)
    IN  /\ Len(s) >= 2
        /\ s[1] = "{"
        /\ s[Len(s)] = "}"
        /\ \/ n = 0
           \/ /\ (n + 1) % 4 = 0
              /\ \A i \in 1..n :
                    CASE i % 4 = 1 -> b[i] \in LiteralTokens
                      [] i % 4 = 2 -> b[i] = ":"
                      [] i % 4 = 3 -> b[i] \in LiteralTokens
                      [] i % 4 = 0 -> b[i] = ","

(* The dict of a well-formed line: its keys, and the value of a key (the     *)
(* last pair with that key wins, as in a Python dict display).               *)
DictKeys(l) ==
    LET b == DictBody(l)
    IN  {LiteralValue(b[i]) : i \in {j \in 1..Len(b) : j % 4 = 1}}

DictGet(l, k) ==
    LET b  == DictBody(l)
        is == {j \in 1..Len(b) : j % 4 = 1 /\ LiteralValue(b[j]) = k}
        i  == CHOOSE j \in is : \A m \in is : m <= j
    IN  LiteralValue(b[i + 2])

(* None when literal_eval raises, otherwise the dict as a function. *)
literal_eval(l) ==
    IF WellFormed(l)
    THEN Some([k \in DictKeys(l) |-> DictGet(l, k)])
    ELSE None

----------------------------------------------------------------------------
(* The lines a producer may write *)

MarkerLine     == <<"#", NL>>
ObsLine(tok)   == <<"{", "'energy'", ":", tok, "}", NL>>
TruncatedLine  == <<"{", "'energy'", ":", "-1.0", NL>>
NoEnergyLine   == <<"{", "'iter'", ":", "3", "}", NL>>
OtherLine      == <<"iteration", NL>>

AllLines ==
    {MarkerLine, ObsLine("-1.0"), ObsLine("0.5"), ObsLine("'abc'"),
     TruncatedLine, NoEnergyLine, OtherLine}

ExampleLines ==
    {MarkerLine, ObsLine("-1.0"), ObsLine("-1.5"), ObsLine("-0.9")}

(* The five lines of the end-to-end example *)
ExampleFile ==
    <<MarkerLine, ObsLine("-1.0"), ObsLine("-1.5"), MarkerLine, ObsLine("-0.9")>>

SignLines == {MarkerLine, ObsLine("-1.0"), ObsLine("0.5")}

CtlLines == {MarkerLine, ObsLine("-1.0")}

(* Well-formed lines of each kind, one with a '#' inside *)
NoteLine == <<"note", "#", NL>>

ChunkLines == {MarkerLine, ObsLine("-1.0"), NoteLine}

(* Lines of one length, so that an offset counted in lines is an offset in *)
(* bytes                                                                   *)
TruncLines == {ObsLine("-1.0"), ObsLine("-1.5")}

----------------------------------------------------------------------------
(* The file system and the producer (ck run) *)

(* An inode: the lines written (the last one may still lack its newline),  *)
(* the number of directory entries and of open handles referring to it.    *)
NewInode == [lines |-> <<>>, nlink |-> 1, nopen |-> 0]

(* A line that ends with its newline *)
Complete(l) == Len(l) > 0 /\ l[Len(l)] = NL

LastComplete(f) ==
    IF Len(inodes[f].lines) = 0 THEN TRUE
    ELSE Complete(inodes[f].lines[Len(inodes[f].lines)])

Stored == LET RECURSIVE Sum(_)
              Sum(i) == IF i = 0 THEN 0 ELSE Len(inodes[i].lines) + Sum(i - 1)
          IN  Sum(Len(inodes))

(* The producer appends one complete line to the file at the path. *)
WriterAppend(L, max) ==
    /\ path # 0
    /\ Stored < max
    /\ LastComplete(path)
    /\ \E l \in L :
          inodes' = [inodes EXCEPT ![path].lines = Append(@, l)]
    /\ UNCHANGED <<path, dataVars, data_running, uiVars, ctlVars>>

(* The producer is restarted: it unlinks the file.  An inode that no       *)
(* directory entry and no open handle refers to is freed.                  *)
WriterUnlink ==
    /\ path # 0
    /\ inodes' = [inodes EXCEPT
                     ![path] = [lines |-> IF @.nopen > 0 THEN @.lines ELSE <<>>,
                                nlink |-> 0,
                                nopen |-> @.nopen]]
    /\ path' = 0
    /\ UNCHANGED <<dataVars, data_running, uiVars, ctlVars>>

(* The producer writes the first part of a line, without its newline. *)
WriterBegin(L, max) ==
    /\ path # 0
    /\ Stored < max
    /\ LastComplete(path)
    /\ \E l \in L : \E k \in 1..(Len(l) - 1) :
          inodes' = [inodes EXCEPT ![path].lines = Append(@, SubSeq(l, 1, k))]
    /\ UNCHANGED <<path, dataVars, data_running, uiVars, ctlVars>>

(* The producer writes more of the line it has begun, up to the newline or *)
(* short of it.                                                            *)
WriterContinue(L) ==
    /\ path # 0
    /\ ~LastComplete(path)
    /\ LET n == Len(inodes[path].lines)
           frag == inodes[path].lines[n]
       IN  \E l \in L : \E k \in (Len(frag) + 1)..Len(l) :
              /\ SubSeq(l, 1, Len(frag)) = frag
              /\ inodes' = [inodes EXCEPT ![path].lines[n] = SubSeq(l, 1, k)]
    /\ UNCHANGED <<path, dataVars, data_running, uiVars, ctlVars>>

(* The producer truncates the file in place: same inode, same link count,  *)
(* no content; the offsets of open handles stay where they were.           *)
WriterTruncate ==
    /\ path # 0
    /\ Len(inodes[path].lines) > 0
    /\ inodes' = [inodes EXCEPT ![path].lines = <<>>]
    /\ UNCHANGED <<path, dataVars, data_running, uiVars, ctlVars>>

(* The restarted producer creates a new, empty file at the same path. *)
WriterCreate ==
    /\ path = 0
    /\ Len(inodes) < MaxFiles
    /\ inodes' = Append(inodes, NewInode)
    /\ path' = Len(inodes) + 1
    /\ UNCHANGED <<dataVars, data_running, uiVars, ctlVars>>

----------------------------------------------------------------------------
(* DataSource *)

(* self.file.readline(): what follows the offset up to and including the   *)
(* next newline, or up to the end of the file when the last line has no    *)
(* newline yet; '' at end of file                                          *)
readline(f, p) ==
    IF p < Len(inodes[f].lines)
    THEN SubSeq(inodes[f].lines[p + 1], col + 1, Len(inodes[f].lines[p + 1]))
    ELSE <<>>

(* open(self.fname): one more handle on the inode *)
Opened(ino) == [ino EXCEPT !.nopen = @ + 1]

(* The dropped file object is left open until the interpreter exits. *)
LeftOpen(ino) == ino

(* The file object loses its last reference at line 51 and is closed; an   *)
(* inode without directory entry and handle is freed.                      *)
Closed(ino) ==
    [ino EXCEPT !.nopen = @ - 1,
                !.lines = IF ino.nlink = 0 /\ ino.nopen = 1 THEN <<>> ELSE @]

(* os.fstat(self.file.fileno()).st_nlink *)
st_nlink(f) == inodes[f].nlink

(* A slip in the index: the sample goes to the first run, not the last. *)
AppendSampleToFirst(lg, v) ==
    LET runs == lg[1]
    IN  Some([runs EXCEPT ![1] = Append(@, v)])

(* self.logs[-1].append(v) *)
AppendSample(lg, v) ==
    LET runs == lg[1]
    IN  Some([runs EXCEPT ![Len(runs)] = Append(@, v)])

(* A marker right after another run boundary starts no further run. *)
AppendRunUnlessEmpty(lg) ==
    IF lg[1][Len(lg[1])] = <<>> THEN lg ELSE Some(Append(lg[1], <<>>))

(* The new run put in front of the others. *)
PrependRun(lg) == Some(<< <<>> >> \o lg[1])

(* A marker taken for a restart: the run list starts over. *)
RestartRuns(lg) == Some(<< <<>> >>)

(* self.logs.append([]) *)
AppendRun(lg) == Some(Append(lg[1], <<>>))

(* The reset forgotten on a reopen: only a first open starts a run list. *)
FreshLogsFirstOpenOnly(lg) == IF lg = None THEN Some(<< <<>> >>) ELSE lg

(* self.logs = [[]] *)
FreshLogs(lg) == Some(<< <<>> >>)

(* line 45: self.running = True *)
RunEnter ==
    /\ dataPc = "started"
    /\ data_running' = TRUE
    /\ dataPc' = "loop"
    /\ UNCHANGED <<fsVars, file, pos, col, line, logs, uiVars, ctlVars>>

(* line 46: while self.running, found false *)
RunExit ==
    /\ dataPc = "loop"
    /\ ~data_running
    /\ dataPc' = "done"
    /\ UNCHANGED <<fsVars, file, pos, col, line, logs, data_running, uiVars, ctlVars>>

Iterating == dataPc = "loop" /\ data_running

(* lines 49-51: the handle's file has been unlinked, drop the handle *)
DetectUnlink ==
    /\ Iterating
    /\ file # NoFile
    /\ st_nlink(file) = 0
    /\ file' = NoFile
    /\ pos' = 0
    /\ col' = 0
    /\ inodes' = [inodes EXCEPT ![file] = Closed(@)]
    /\ UNCHANGED <<path, line, logs, dataPc, data_running, uiVars, ctlVars>>

Reading == Iterating /\ file # NoFile /\ st_nlink(file) # 0

(* The offset after readline returned l *)
Advance(l) == IF Complete(l) THEN pos + 1 ELSE pos

NextCol(l) == IF Complete(l) THEN 0 ELSE col + Len(l)

(* End of file taken for the end of the log: the handle is dropped. *)
ReadEOFDropsHandle ==
    /\ Reading
    /\ readline(file, pos) = <<>>
    /\ line' = <<>>
    /\ file' = NoFile
    /\ pos' = 0
    /\ col' = 0
    /\ UNCHANGED <<fsVars, logs, dataPc, data_running, uiVars, ctlVars>>

(* lines 54-56: nothing to read, sleep *)
ReadEOF ==
    /\ Reading
    /\ readline(file, pos) = <<>>
    /\ line' = <<>>
    /\ UNCHANGED <<fsVars, file, pos, col, logs, dataPc, data_running, uiVars,
                   ctlVars>>

(* lines 57-59: an experimental iteration; literal_eval or d["energy"] may  *)
(* raise, which ends the thread                                             *)
ReadObservation ==
    /\ Reading
    /\ LET l == readline(file, pos)
            d == literal_eval(l)
       IN  /\ startswith(l, "{")
           /\ line' = l
           /\ pos' = Advance(l)
           /\ col' = NextCol(l)
           /\ IF d = None \/ Str("energy") \notin DOMAIN d[1]
              THEN /\ dataPc' = "raised"
                   /\ logs' = logs
              ELSE /\ dataPc' = dataPc
                   /\ logs' = AppendSample(logs, d[1][Str("energy")])
    /\ UNCHANGED <<fsVars, file, data_running, uiVars, ctlVars>>

(* lines 60-61: a new experiment run *)
ReadMarker ==
    /\ Reading
    /\ LET l == readline(file, pos)
       IN  /\ ~startswith(l, "{")
           /\ startswith(l, "#")
           /\ line' = l
           /\ pos' = Advance(l)
           /\ col' = NextCol(l)
           /\ logs' = AppendRun(logs)
    /\ UNCHANGED <<fsVars, file, dataPc, data_running, uiVars, ctlVars>>

(* lines 54-61, no branch taken: any other line *)
ReadOther ==
    /\ Reading
    /\ LET l == readline(file, pos)
       IN  /\ l # <<>>
           /\ ~startswith(l, "{")
           /\ ~startswith(l, "#")
           /\ line' = l
           /\ pos' = Advance(l)
           /\ col' = NextCol(l)
    /\ UNCHANGED <<fsVars, file, logs, dataPc, data_running, uiVars, ctlVars>>

(* lines 64-66: open the file and start from an empty run list *)
OpenFile ==
    /\ Iterating
    /\ file = NoFile
    /\ fname = "path"
    /\ path # 0
    /\ file' = path
    /\ pos' = 0
    /\ col' = 0
    /\ inodes' = [inodes EXCEPT ![path] = Opened(@)]
    /\ logs' = FreshLogs(logs)
    /\ UNCHANGED <<path, line, dataPc, data_running, uiVars, ctlVars>>

(* The same two statements one at a time, as the other threads see them. *)
(* line 65: self.file = open(self.fname) *)
OpenHandle ==
    /\ Iterating
    /\ file = NoFile
    /\ fname = "path"
    /\ path # 0
    /\ file' = path
    /\ pos' = 0
    /\ col' = 0
    /\ inodes' = [inodes EXCEPT ![path] = Opened(@)]
    /\ dataPc' = "opened"
    /\ UNCHANGED <<path, line, logs, data_running, uiVars, ctlVars>>

(* A draw_graphs loop under way goes on enumerating the list object it     *)
(* started with: once self.logs names a new list, the old one, with the    *)
(* contents lg it has by then, is that loop's own.                         *)
Detached(pl, lg) ==
    IF pl # None /\ pl[1].list = None
    THEN Some([pl[1] EXCEPT !.list = lg])
    ELSE pl

(* line 66: self.logs = [[]] *)
ResetLogs ==
    /\ dataPc = "opened"
    /\ logs' = FreshLogs(logs)
    /\ plot' = Detached(plot, logs)
    /\ dataPc' = "loop"
    /\ UNCHANGED <<fsVars, file, pos, col, line, data_running, ui_running, uiPc,
                   numerical_markers, statsWin, graphWin, ctlVars>>

(* line 65 with the error dict for a name: open raises TypeError, which   *)
(* line 67 does not catch                                                  *)
OpenBadName ==
    /\ Iterating
    /\ file = NoFile
    /\ fname = "error"
    /\ dataPc' = "raised"
    /\ UNCHANGED <<fsVars, file, pos, col, line, logs, data_running, uiVars,
                   ctlVars>>

(* lines 67-68: FileNotFoundError, sleep *)
OpenMissing ==
    /\ Iterating
    /\ file = NoFile
    /\ fname = "path"
    /\ path = 0
    /\ UNCHANGED vars

----------------------------------------------------------------------------
(* CURSESDisplay *)

(* Python truth value of self.data.logs: None and [] are false *)
Truthy(lg) == lg # None /\ lg[1] # <<>>

RECURSIVE MinOf(_)
MinOf(xs) ==
    IF Len(xs) = 1 THEN xs[1].v
    ELSE LET m == MinOf(Tail(xs)) IN IF xs[1].v < m THEN xs[1].v ELSE m

RECURSIVE MaxOf(_)
MaxOf(xs) ==
    IF Len(xs) = 1 THEN xs[1].v
    ELSE LET m == MaxOf(Tail(xs)) IN IF xs[1].v > m THEN xs[1].v ELSE m

RECURSIVE SumOf(_)
SumOf(ns) == IF ns = <<>> THEN 0 ELSE ns[1] + SumOf(Tail(ns))

Min2(a, b) == IF b < a THEN b ELSE a
Max2(a, b) == IF b > a THEN b ELSE a

(* min() of a str with a number raises TypeError (lines 117, 156-157) *)
DrawRaises(lg) ==
    Truthy(lg) /\ \E i \in 1..Len(Samples(lg)) : ~IsNum(Samples(lg)[i])

(* lines 114-117: min_ starts at 0 and takes the minimum of every          *)
(* non-empty run                                                            *)
RECURSIVE MinSeen(_, _)
MinSeen(runs, min_) ==
    IF runs = <<>> THEN min_
    ELSE MinSeen(Tail(runs),
                 IF runs[1] # <<>> THEN Min2(min_, MinOf(runs[1])) ELSE min_)

(* lines 113-119: the minimum of every non-empty run but the last *)
FinalEs(runs) ==
    LET fin == SelectSeq(SubSeq(runs, 1, Len(runs) - 1), LAMBDA r : r # <<>>)
    IN  [i \in 1..Len(fin) |-> MinOf(fin[i])]

Text(s) == [kind |-> "text", text |-> s]

(* np.mean: the sum over the count, kept as a fraction (of tenths) *)
Mean(es) == [kind |-> "number", num |-> SumOf(es), den |-> Len(es)]

(* np.std: the population standard deviation, kept as the fraction whose   *)
(* square root it is                                                       *)
Std(es) ==
    [kind |-> "number",
     sq_num |-> Len(es) * SumOf([i \in 1..Len(es) |-> es[i] * es[i]])
                  - SumOf(es) * SumOf(es),
     sq_den |-> Len(es) * Len(es)]

(* lines 124-125: the text shown when there are not two finished runs *)
InsufficientText == "Insufficent data"

(* lines 109-128: what draw_stats writes into the cleared window *)
draw_stats(lg) ==
    IF Truthy(lg)
    THEN LET final_es == FinalEs(lg[1])
         IN  [shown |-> "stats",
              nruns |-> Len(lg[1]) - 1,
              mine  |-> MinSeen(lg[1], 0),
              mean  |-> IF Len(final_es) > 1 THEN Mean(final_es)
                        ELSE Text(InsufficientText),
              var   |-> IF Len(final_es) > 1 THEN Std(final_es)
                        ELSE Text(InsufficientText)]
    ELSE [shown |-> "placeholder", text |-> "No data yet!"]

(* lines 131-137 (self.color is False) *)
getmarker(lg, nm, i) ==
    IF i = Len(lg[1]) - 1 THEN "_,"
    ELSE IF nm THEN ToString(i)
    ELSE "_."

(* lines 142-163: one series per non-empty run (its index, marker and     *)
(* number of points), y range seeded with -1.7 .. -1.6; nothing is drawn  *)
(* when there are no logs                                                 *)
draw_graphs(lg, nm, old) ==
    IF Truthy(lg)
    THEN LET runs == lg[1]
             idx  == SelectSeq([i \in 1..Len(runs) |-> i],
                               LAMBDA i : Len(runs[i]) >= 1)
             all  == Flatten(runs)
         IN  [shown  |-> "plot",
              series |-> [k \in 1..Len(idx) |->
                            [run    |-> idx[k] - 1,
                             marker |-> getmarker(lg, nm, idx[k] - 1),
                             points |-> Len(runs[idx[k]])]],
              ylim   |-> IF all = <<>> THEN <<-17, -16>>
                         ELSE <<Min2(-17, MinOf(all)), Max2(-16, MaxOf(all))>>]
    ELSE old

(* lines 170-197: the windows are set up, self.running = True *)
MainEnter ==
    /\ uiPc = "started"
    /\ ui_running' = TRUE
    /\ uiPc' = "loop"
    /\ UNCHANGED <<fsVars, dataVars, data_running, numerical_markers,
                   statsWin, graphWin, plot, ctlVars>>

(* line 199: while self.running, found false *)
MainExit ==
    /\ uiPc = "loop"
    /\ ~ui_running
    /\ uiPc' = "done"
    /\ UNCHANGED <<fsVars, dataVars, data_running, ui_running,
                   numerical_markers, statsWin, graphWin, plot, ctlVars>>

(* lines 199-217: one non-blocking getch; q leaves the loop, n toggles the *)
(* markers, any other key or no key does nothing                          *)
PollKey(Keys) ==
    /\ uiPc = "loop"
    /\ ui_running
    /\ \E cmd \in Keys :
          /\ uiPc' = IF cmd = "q" THEN "done" ELSE "graphs"
          /\ numerical_markers' =
                IF cmd = "n" THEN ~numerical_markers ELSE numerical_markers
    /\ UNCHANGED <<fsVars, dataVars, data_running, ui_running,
                   statsWin, graphWin, plot, ctlVars>>

(* line 220 *)
DrawGraphs ==
    /\ uiPc = "graphs"
    /\ IF DrawRaises(logs)
       THEN uiPc' = "raised" /\ graphWin' = graphWin
       ELSE /\ uiPc' = "stats"
            /\ graphWin' = draw_graphs(logs, numerical_markers, graphWin)
    /\ UNCHANGED <<fsVars, dataVars, data_running, ui_running,
                   numerical_markers, statsWin, plot, ctlVars>>

(* draw_graphs one step at a time, as the tailer sees it. *)
(* lines 147-150: if self.data.logs, a new figure, and the enumerate of    *)
(* the list that self.data.logs names now; nothing is drawn otherwise      *)
GraphsBegin ==
    /\ uiPc = "graphs"
    /\ plot = None
    /\ IF Truthy(logs)
       THEN /\ plot' = Some([i |-> 0, list |-> None, series |-> <<>>,
                              lo |-> -17, hi |-> -16])
            /\ uiPc' = uiPc
       ELSE /\ plot' = plot
            /\ uiPc' = "stats"
    /\ UNCHANGED <<fsVars, dataVars, data_running, ui_running,
                   numerical_markers, statsWin, graphWin, ctlVars>>

(* The list the loop enumerates, as it is now *)
Enumerated == IF plot[1].list = None THEN logs[1] ELSE plot[1].list[1]

(* lines 150-157: one turn of the loop; getmarker reads self.data.logs     *)
(* anew                                                                    *)
GraphsSeries ==
    /\ uiPc = "graphs"
    /\ plot # None
    /\ plot[1].i < Len(Enumerated)
    /\ LET i   == plot[1].i
           log == Enumerated[i + 1]
       IN  plot' =
              IF Len(log) < 1
              THEN Some([plot[1] EXCEPT !.i = i + 1])
              ELSE Some([plot[1] EXCEPT
                           !.i = i + 1,
                           !.series = Append(@,
                               [run    |-> i,
                                marker |-> getmarker(logs, numerical_markers, i),
                                points |-> Len(log)]),
                           !.lo = Min2(@, MinOf(log)),
                           !.hi = Max2(@, MaxOf(log))])
    /\ UNCHANGED <<fsVars, dataVars, data_running, ui_running, uiPc,
                   numerical_markers, statsWin, graphWin, ctlVars>>

(* lines 159-163: the loop is over, the figure goes to the window *)
GraphsEnd ==
    /\ uiPc = "graphs"
    /\ plot # None
    /\ plot[1].i >= Len(Enumerated)
    /\ graphWin' = [shown  |-> "plot",
                    series |-> plot[1].series,
                    ylim   |-> <<plot[1].lo, plot[1].hi>>]
    /\ plot' = None
    /\ uiPc' = "stats"
    /\ UNCHANGED <<fsVars, dataVars, data_running, ui_running,
                   numerical_markers, statsWin, ctlVars>>

(* lines 221-227 *)
DrawStats ==
    /\ uiPc = "stats"
    /\ IF DrawRaises(logs)
       THEN uiPc' = "raised" /\ statsWin' = statsWin
       ELSE uiPc' = "loop" /\ statsWin' = draw_stats(logs)
    /\ UNCHANGED <<fsVars, dataVars, data_running, ui_running,
                   numerical_markers, graphWin, plot,
                   ctlVars>>

----------------------------------------------------------------------------
(* __main__ *)

(* The check left out: the program goes on whatever stdin is. *)
RefusesNever(tty) == FALSE

(* line 262: not sys.stdin.isatty() *)
Refuses(tty) == ~tty

(* lines 262-264: on a stdin that is no terminal, print the notice and     *)
(* sys.exit(1)                                                             *)
CheckTty ==
    /\ mainPc = "check_tty"
    /\ mainPc' = IF Refuses(stdin_isatty) THEN "exit_1" ELSE "fname"
    /\ UNCHANGED <<fsVars, dataVars, data_running, uiVars, sigint, startVars>>

(* What get_fname() (lines 230-256) can come to: the stream file's path,   *)
(* the error dict r of ck.access (line 251), or an exception (unknown      *)
(* provider at line 241, no ck module at line 243).                        *)
get_fname == {"path", "error", "raises"}

(* line 266: fname = sys.argv[1] if len(sys.argv) > 1 else get_fname() *)
ResolveName ==
    /\ mainPc = "fname"
    /\ \E r \in IF argv_given THEN {"path"} ELSE get_fname :
          /\ fname' = IF r = "raises" THEN fname ELSE r
          /\ mainPc' = IF r = "raises" THEN "raised" ELSE "construct"
    /\ UNCHANGED <<fsVars, dataVars, data_running, uiVars, sigint,
                   stdin_isatty, argv_given>>

(* lines 267-268: data = DataSource(fname); ui = CURSESDisplay(data) *)
Construct ==
    /\ mainPc = "construct"
    /\ dataPc' = "new"
    /\ uiPc' = "new"
    /\ mainPc' = "start_data"
    /\ UNCHANGED <<fsVars, file, pos, col, line, logs, data_running, ui_running,
                   numerical_markers, statsWin, graphWin, plot, sigint,
                   startVars>>

(* line 275: data.start() *)
StartData ==
    /\ mainPc = "start_data"
    /\ dataPc = "new"
    /\ dataPc' = "started"
    /\ mainPc' = "start_ui"
    /\ UNCHANGED <<fsVars, file, pos, col, line, logs, data_running, uiVars, sigint,
                   startVars>>

(* line 276: ui.start() *)
StartUi ==
    /\ mainPc = "start_ui"
    /\ uiPc = "new"
    /\ uiPc' = "started"
    /\ mainPc' = "install"
    /\ UNCHANGED <<fsVars, dataVars, data_running, ui_running,
                   numerical_markers, statsWin, graphWin, plot, sigint, startVars>>

(* line 277: signal.signal(signal.SIGINT, die) *)
InstallHandler ==
    /\ mainPc = "install"
    /\ sigint' = "die"
    /\ mainPc' = "join_ui"
    /\ UNCHANGED <<fsVars, dataVars, data_running, uiVars, startVars>>

Ended(pc) == pc \in {"done", "raised"}

(* line 279: ui.join() returns once the renderer thread has ended *)
JoinUi ==
    /\ mainPc = "join_ui"
    /\ Ended(uiPc)
    /\ mainPc' = "clear_data"
    /\ UNCHANGED <<fsVars, dataVars, data_running, uiVars, sigint,
                   startVars>>

(* line 280: data.running = False *)
ClearData ==
    /\ mainPc = "clear_data"
    /\ data_running' = FALSE
    /\ mainPc' = "join_data"
    /\ UNCHANGED <<fsVars, dataVars, uiVars, sigint, startVars>>

(* line 281: data.join() returns once the tailer thread has ended *)
JoinData ==
    /\ mainPc = "join_data"
    /\ Ended(dataPc)
    /\ mainPc' = "exit"
    /\ UNCHANGED <<fsVars, dataVars, data_running, uiVars, sigint,
                   startVars>>

(* lines 270-273: SIGINT arrives while die is installed; the handler runs  *)
(* in the main thread, between any two steps of the workers                *)
die ==
    /\ sigint = "die"
    /\ mainPc # "exit"
    /\ ui_running' = FALSE
    /\ data_running' = FALSE
    /\ sigint' = "SIG_DFL"
    /\ UNCHANGED <<fsVars, dataVars, uiPc, numerical_markers,
                   statsWin, graphWin, plot, mainPc, startVars>>

----------------------------------------------------------------------------
(* The state after data = DataSource(fname), ui = CURSESDisplay(data)      *)
(* (lines 31-37, 97-103, 267-268) of an interactive invocation with the    *)
(* path as argument; the log file may or may not exist yet.                *)

BlankWin == [shown |-> "blank"]

Init ==
    /\ \/ path = 0 /\ inodes = <<>>
       \/ path = 1 /\ inodes = <<NewInode>>
    /\ file = NoFile
    /\ pos = 0
    /\ col = 0
    /\ line = <<>>
    /\ logs = None
    /\ data_running = FALSE
    /\ dataPc = "new"
    /\ ui_running = FALSE
    /\ uiPc = "new"
    /\ numerical_markers = TRUE
    /\ statsWin = BlankWin
    /\ graphWin = BlankWin
    /\ plot = None
    /\ mainPc = "start_data"
    /\ sigint = "default"
    /\ stdin_isatty = TRUE
    /\ argv_given = TRUE
    /\ fname = "path"

(* The tailer and the producer: the log file is written, unlinked and      *)
(* created again while DataSource.run polls it.                            *)
Next ==
    \/ StartData
    \/ RunEnter
    \/ DetectUnlink
    \/ ReadEOF
    \/ ReadObservation
    \/ ReadMarker
    \/ ReadOther
    \/ OpenFile
    \/ OpenMissing
    \/ WriterAppend(AllLines, MaxLines)
    \/ WriterUnlink
    \/ WriterCreate

Spec == Init /\ [][Next]_vars

(* The same with the tailer thread scheduled whenever it can take a step, *)
(* once data.start() has been called; the producer is under no obligation. *)
Tailer ==
    \/ RunEnter
    \/ DetectUnlink
    \/ ReadEOF
    \/ ReadObservation
    \/ ReadMarker
    \/ ReadOther
    \/ OpenFile
    \/ OpenMissing

SpecFair == Spec /\ WF_vars(StartData) /\ WF_vars(Tailer)

(* The tailer and the renderer on one file of well-formed lines, as long  *)
(* as the end-to-end example: the renderer redraws while the file grows.  *)
NextExample ==
    \/ StartData
    \/ StartUi
    \/ RunEnter
    \/ MainEnter
    \/ OpenFile
    \/ OpenMissing
    \/ ReadEOF
    \/ ReadObservation
    \/ ReadMarker
    \/ PollKey({"none"})
    \/ DrawGraphs
    \/ DrawStats
    \/ WriterCreate
    \/ WriterAppend(ExampleLines, Len(ExampleFile))

SpecExample == Init /\ [][NextExample]_vars

(* The same on lines of either sign. *)
NextStats ==
    \/ StartData
    \/ StartUi
    \/ RunEnter
    \/ MainEnter
    \/ OpenFile
    \/ OpenMissing
    \/ ReadEOF
    \/ ReadObservation
    \/ ReadMarker
    \/ PollKey({"none", "n"})
    \/ DrawGraphs
    \/ DrawStats
    \/ WriterCreate
    \/ WriterAppend(SignLines, MaxSignLines)

SpecStats == Init /\ [][NextStats]_vars

(* Start-up and shutdown: the controller, both threads, the keyboard and  *)
(* the interrupt, on a short file.                                        *)
DataThread ==
    \/ RunEnter
    \/ RunExit
    \/ OpenFile
    \/ OpenMissing
    \/ ReadEOF
    \/ ReadObservation
    \/ ReadMarker

UiThread ==
    \/ MainEnter
    \/ MainExit
    \/ PollKey({"none", "n", "q"})
    \/ DrawGraphs
    \/ DrawStats

MainThread ==
    \/ StartData
    \/ StartUi
    \/ InstallHandler
    \/ JoinUi
    \/ ClearData
    \/ JoinData

NextCtl ==
    \/ DataThread
    \/ UiThread
    \/ MainThread
    \/ die
    \/ WriterCreate
    \/ WriterAppend(CtlLines, MaxCtlLines)

(* Each thread that can take a step is eventually scheduled; the producer, *)
(* the keyboard and the interrupt are under no obligation.                 *)
SpecCtl ==
    /\ Init
    /\ [][NextCtl]_vars
    /\ WF_vars(DataThread)
    /\ WF_vars(UiThread)
    /\ WF_vars(MainThread)

(* The whole program after construction: controller, tailer, renderer,    *)
(* keyboard and interrupt, while the producer writes and replaces files.   *)
NextAll ==
    \/ DataThread
    \/ DetectUnlink
    \/ MainEnter
    \/ MainExit
    \/ PollKey({"none", "q"})
    \/ DrawGraphs
    \/ DrawStats
    \/ MainThread
    \/ die
    \/ WriterCreate
    \/ WriterUnlink
    \/ WriterAppend(CtlLines, MaxAllLines)

SpecAll == Init /\ [][NextAll]_vars

(* The three threads statement by statement where they share the run      *)
(* list: the open and the reset of the tailer are two steps, each turn of  *)
(* the chart loop is one, while the producer writes and replaces files.    *)
NextRace ==
    \/ StartData
    \/ StartUi
    \/ RunEnter
    \/ MainEnter
    \/ OpenHandle
    \/ ResetLogs
    \/ OpenMissing
    \/ DetectUnlink
    \/ ReadEOF
    \/ ReadObservation
    \/ ReadMarker
    \/ PollKey({"none", "n"})
    \/ GraphsBegin
    \/ GraphsSeries
    \/ GraphsEnd
    \/ DrawStats
    \/ WriterAppend(CtlLines, MaxRaceLines)
    \/ WriterUnlink
    \/ WriterCreate

SpecRace == Init /\ [][NextRace]_vars

(* The tailer on well-formed files that the producer replaces. *)
NextReplace ==
    \/ StartData
    \/ RunEnter
    \/ DetectUnlink
    \/ ReadEOF
    \/ ReadObservation
    \/ ReadMarker
    \/ OpenFile
    \/ OpenMissing
    \/ WriterAppend(CtlLines, MaxReplaceLines)
    \/ WriterUnlink
    \/ WriterCreate

SpecReplace == Init /\ [][NextReplace]_vars

(* The tailer on a file of well-formed lines that its producer writes      *)
(* whole or in several parts.                                              *)
NextChunk ==
    \/ StartData
    \/ RunEnter
    \/ OpenFile
    \/ OpenMissing
    \/ ReadEOF
    \/ ReadObservation
    \/ ReadMarker
    \/ ReadOther
    \/ WriterCreate
    \/ WriterAppend(ChunkLines, MaxChunkLines)
    \/ WriterBegin(ChunkLines, MaxChunkLines)
    \/ WriterContinue(ChunkLines)

SpecChunk == Init /\ [][NextChunk]_vars

(* The tailer on a file that its producer truncates in place and writes   *)
(* again; the tailer thread is scheduled whenever it can take a step.      *)
NextTrunc ==
    \/ StartData
    \/ RunEnter
    \/ OpenFile
    \/ OpenMissing
    \/ ReadEOF
    \/ ReadObservation
    \/ WriterCreate
    \/ WriterAppend(TruncLines, MaxTruncLines)
    \/ WriterTruncate

SpecTrunc ==
    /\ Init
    /\ [][NextTrunc]_vars
    /\ WF_vars(StartData)
    /\ WF_vars(DataThread)

(* The whole program from its first line, on either kind of stdin, with   *)
(* or without a path argument.                                             *)
InitStart ==
    /\ \/ path = 0 /\ inodes = <<>>
       \/ path = 1 /\ inodes = <<NewInode>>
    /\ file = NoFile
    /\ pos = 0
    /\ col = 0
    /\ line = <<>>
    /\ logs = None
    /\ data_running = FALSE
    /\ dataPc = "unconstructed"
    /\ ui_running = FALSE
    /\ uiPc = "unconstructed"
    /\ numerical_markers = TRUE
    /\ statsWin = BlankWin
    /\ graphWin = BlankWin
    /\ plot = None
    /\ mainPc = "check_tty"
    /\ sigint = "default"
    /\ stdin_isatty \in BOOLEAN
    /\ argv_given \in BOOLEAN
    /\ fname = "unset"

NextStart ==
    \/ CheckTty
    \/ ResolveName
    \/ Construct
    \/ DataThread
    \/ OpenBadName
    \/ UiThread
    \/ MainThread
    \/ die
    \/ WriterCreate
    \/ WriterAppend(CtlLines, MaxCtlLines)

SpecStart == InitStart /\ [][NextStart]_vars

----------------------------------------------------------------------------
(* What the tailer has read from the file it has open *)

ReadPrefix == SubSeq(inodes[file].lines, 1, pos)

(* A '{' line that parses to a dict with an 'energy' key *)
HasEnergy(l) ==
    /\ startswith(l, "{")
    /\ literal_eval(l) # None
    /\ Str("energy") \in DOMAIN literal_eval(l)[1]

EnergyOf(l) == literal_eval(l)[1][Str("energy")]

IsMarker(l) == startswith(l, "#")

MarkerPositions(P) == {i \in 1..Len(P) : IsMarker(P[i])}

(* Position of the j-th marker of P; 0 for j = 0 (the open), Len(P) + 1   *)
(* past the last one (end of input)                                        *)
Boundary(P, j) ==
    LET M == MarkerPositions(P)
    IN  IF j = 0 THEN 0
        ELSE IF j > Cardinality(M) THEN Len(P) + 1
        ELSE CHOOSE i \in M : Cardinality({m \in M : m <= i}) = j

(* The energies of the lines of P strictly between positions a and b *)
EnergiesBetween(P, a, b) ==
    LET S == SelectSeq(SubSeq(P, a + 1, b - 1), HasEnergy)
    IN  [i \in 1..Len(S) |-> EnergyOf(S[i])]

Segments(P) ==
    [j \in 1..(Cardinality(MarkerPositions(P)) + 1) |->
        EnergiesBetween(P, Boundary(P, j - 1), Boundary(P, j))]

----------------------------------------------------------------------------
(* C1 -- Run segmentation: while a handle is open, the run list has one    *)
(* run more than there are '#' lines among the lines read from it, and run *)
(* j holds, in file order, the energies of the '{' lines read after the    *)
(* j-th marker (the open, for j = 0) and before the next marker or the end *)
(* of what was read; other lines contribute nothing.                       *)
RunSegmentation ==
    file # NoFile => logs = Some(Segments(ReadPrefix))

RunSegmentationWitness ==
    /\ file # NoFile
    /\ pos = 3
    /\ Len(logs[1]) = 2
    /\ Len(logs[1][1]) = 1
    /\ Len(logs[1][2]) = 1

(* C2 -- File-replacement reset: the step in which the tailer opens a file *)
(* leaves the run list as exactly one empty run, and while a handle is    *)
(* open the samples of the run list are exactly the energies read from    *)
(* the file that handle is on, none from a file opened before.            *)
ReplacementReset ==
    [][ /\ (file = NoFile /\ file' # NoFile) => logs' = Some(<< <<>> >>)
        /\ file' # NoFile =>
              Samples(logs') = EnergiesBetween(ReadPrefix', 0, pos' + 1) ]_vars

(* The tailer read an observation from the first file, the file was       *)
(* replaced, and the tailer has just opened the second file.              *)
ReplacementResetWitness ==
    /\ file = 2
    /\ pos = 0
    /\ HasEnergy(line)
    /\ logs = Some(<< <<>> >>)

(* C6 -- Idempotent no-op reads: a step taken while the tailer holds an    *)
(* open, still linked file that it has read to the end, and that leaves   *)
(* the file system as it is, changes neither the run list nor the handle. *)
IdempotentPoll ==
    [][ ( /\ file # NoFile
          /\ st_nlink(file) # 0
          /\ pos = Len(inodes[file].lines)
          /\ inodes' = inodes
          /\ path' = path )
        => (logs' = logs /\ file' = file /\ pos' = pos) ]_vars

(* The tailer has polled a file with data in it and found nothing new. *)
IdempotentPollWitness ==
    /\ file # NoFile
    /\ st_nlink(file) # 0
    /\ pos = Len(inodes[file].lines)
    /\ pos >= 2
    /\ line = <<>>
    /\ Samples(logs) # <<>>

(* C9 -- Malformed input never stops the tailer: a line that starts with  *)
(* '{' and is no well-formed literal, or has no 'energy' key, is skipped  *)
(* and the thread keeps running.                                          *)
BadLineSkipped ==
    (startswith(line, "{") /\ ~HasEnergy(line)) => dataPc # "raised"

(* C10 -- Run list integrity: every element of every run is a numeric     *)
(* sample.                                                                *)
RunListNumeric ==
    \A i \in 1..Len(Samples(logs)) : IsNum(Samples(logs)[i])

----------------------------------------------------------------------------
(* The end-to-end example of the specification *)

(* The tailer has opened a fresh file and read exactly the five lines. *)
ExampleIngested ==
    /\ file # NoFile
    /\ inodes[file].lines = ExampleFile
    /\ pos = Len(ExampleFile)

(* A step that is a whole draw_stats call *)
StatsDrawn == uiPc = "stats" /\ uiPc' = "loop"

(* C3 as stated -- after the five lines the run list is                   *)
(* [[-1.0, -1.5], [-0.9]] and draw_stats reports N runs = 1.              *)
ExampleAsStated ==
    ExampleIngested =>
        /\ logs = Some(<< <<Num(-10), Num(-15)>>, <<Num(-9)>> >>)
        /\ draw_stats(logs).nruns = 1

(* C3 -- End-to-end example, amended: after the five lines the run list   *)
(* is [[], [-1.0, -1.5], [-0.9]], the run opened with the file staying    *)
(* empty before the first marker, and a draw_stats call made then reports *)
(* N runs = 2 and both statistics as the insufficient-data text.          *)
ExampleRuns ==
    [][ /\ ExampleIngested' =>
              logs' = Some(<< <<>>, <<Num(-10), Num(-15)>>, <<Num(-9)>> >>)
        /\ (ExampleIngested /\ StatsDrawn) =>
              /\ statsWin'.shown = "stats"
              /\ statsWin'.nruns = 2
              /\ statsWin'.mean = Text(InsufficientText)
              /\ statsWin'.var = Text(InsufficientText) ]_vars

(* The five lines are ingested and the stats window shows their count. *)
ExampleRunsWitness ==
    /\ ExampleIngested
    /\ uiPc = "loop"
    /\ statsWin = draw_stats(logs)
    /\ graphWin = draw_graphs(logs, numerical_markers, BlankWin)

(* C4 -- Global minimum: a draw_stats call on a run list with at least    *)
(* one sample reports as minimum the least of all samples of all runs,    *)
(* the last run included, whatever their sign.                            *)
GlobalMinimum ==
    [][ (StatsDrawn /\ Samples(logs) # <<>>) =>
            statsWin'.mine = MinOf(Samples(logs)) ]_vars

(* C5 -- Insufficient-data marker: a draw_stats call on a run list with   *)
(* fewer than 2 finished runs reports mean and variance as the text       *)
(* "Insufficient data".                                                   *)
InsufficientMarker ==
    [][ (StatsDrawn /\ Truthy(logs) /\ Len(logs[1]) - 1 < 2) =>
            /\ statsWin'.mean = Text("Insufficient data")
            /\ statsWin'.var = Text("Insufficient data") ]_vars

(* C7 -- Cooperative shutdown by interrupt: once die has run (it leaves   *)
(* SIG_DFL installed) no step sets a liveness flag back to true.          *)
InterruptClearsForGood ==
    [][ sigint = "SIG_DFL" =>
            /\ (~data_running => ~data_running')
            /\ (~ui_running => ~ui_running') ]_vars

(* C8 -- Coordinated exit on quit: once the renderer thread has ended,    *)
(* the tailer thread ends and the controller's last join returns.         *)
QuitStopsTailer ==
    Ended(uiPc) ~> (Ended(dataPc) /\ mainPc = "exit")

----------------------------------------------------------------------------
(* Start-up *)

NoHandleOpen == \A i \in 1..Len(inodes) : inodes[i].nopen = 0

(* C11: when stdin is not an interactive terminal the program goes from   *)
(* its first line to exit status 1 and nowhere else: neither the tailer   *)
(* nor the renderer is constructed or started, no file is opened, no path *)
(* is looked up and nothing is drawn.                                     *)
NonInteractiveRefusal ==
    ~stdin_isatty =>
        /\ mainPc \in {"check_tty", "exit_1"}
        /\ dataPc = "unconstructed"
        /\ uiPc = "unconstructed"
        /\ ~data_running
        /\ ~ui_running
        /\ fname = "unset"
        /\ file = NoFile
        /\ NoHandleOpen
        /\ statsWin = BlankWin
        /\ graphWin = BlankWin

NonInteractiveRefusalWitness == ~stdin_isatty /\ mainPc = "exit_1"

----------------------------------------------------------------------------
(* Truncation in place *)

(* The handle's offset lies beyond the end of its file, which holds lines  *)
(* again: the producer has truncated the file and written anew.            *)
TruncatedAndRewritten ==
    /\ file # NoFile
    /\ file = path
    /\ Len(inodes[file].lines) > 0
    /\ pos > Len(inodes[file].lines)

(* The run list is the segmentation of all the lines now in the file. *)
PresentsCurrentFile ==
    /\ file # NoFile
    /\ pos = Len(inodes[file].lines)
    /\ col = 0
    /\ logs = Some(Segments(inodes[file].lines))

(* C12: when the producer truncates the file in place and then writes new  *)
(* lines, the tailer sooner or later lets go of the runs read before the   *)
(* truncation and has ingested the newly written lines, as it does for a   *)
(* replaced file.                                                          *)
TruncationHandled ==
    TruncatedAndRewritten ~> (file = NoFile \/ PresentsCurrentFile)

----------------------------------------------------------------------------
(* Lines written in several parts *)

(* C13: on a file of well-formed lines, however the producer splits its    *)
(* writes and whenever the tailer polls, no parse error is raised and,     *)
(* once every line is complete and read, the run list is the one that the  *)
(* same lines written whole give.                                          *)
NoPartialLineProcessing ==
    /\ dataPc # "raised"
    /\ (file # NoFile /\ pos = Len(inodes[file].lines))
          => logs = Some(Segments(inodes[file].lines))

----------------------------------------------------------------------------
(* Opening, dropping and the reset *)

(* C14: a step sets the run list to one empty run if and only if it opens  *)
(* a handle; a step that ends without a handle (the unlinked file is       *)
(* detected, the open fails) leaves the run list as it was.                *)
ResetExactlyOnOpen ==
    [][/\ (file = NoFile /\ file' # NoFile) => logs' = Some(<< <<>> >>)
       /\ (logs' # logs /\ logs' = Some(<< <<>> >>))
             => (file = NoFile /\ file' # NoFile)
       /\ file' = NoFile => logs' = logs]_vars

(* The handle has been dropped, the path is gone, the old runs are kept. *)
ResetExactlyOnOpenWitness ==
    /\ file = NoFile
    /\ path = 0
    /\ logs # None
    /\ Samples(logs) # <<>>

RECURSIVE HandlesOpen(_)
HandlesOpen(n) == IF n = 0 THEN 0 ELSE inodes[n].nopen + HandlesOpen(n - 1)

(* C15: at most one handle is open at any time, the one DataSource.file    *)
(* holds; a dropped handle is closed by the time the next one is opened.   *)
AtMostOneHandle ==
    /\ HandlesOpen(Len(inodes)) <= 1
    /\ file = NoFile => HandlesOpen(Len(inodes)) = 0
    /\ file # NoFile => inodes[file].nopen = 1

(* The second file is open after the first was dropped. *)
AtMostOneHandleWitness ==
    /\ Len(inodes) = 2
    /\ file = 2
    /\ inodes[1].nlink = 0

----------------------------------------------------------------------------
(* The run list between the threads *)

(* C16: the run list is None before the first open, and whenever a handle  *)
(* is open, which needs the file to have been opened, the run list is a    *)
(* non-empty sequence of runs.                                             *)
RunListNonEmptyOnceOpened ==
    /\ Len(inodes) = 0 => logs = None
    /\ file # NoFile => Truthy(logs)

(* lg2 is lg1 with one value more in its last run, or one empty run more. *)
Extends(lg1, lg2) ==
    /\ lg1 # None
    /\ lg2 # None
    /\ LET r1 == lg1[1]
           r2 == lg2[1]
       IN  \/ r2 = r1 \o << <<>> >>
           \/ /\ Len(r2) = Len(r1)
              /\ Len(r1) >= 1
              /\ \A k \in 1..(Len(r1) - 1) : r2[k] = r1[k]
              /\ Len(r2[Len(r2)]) = Len(r1[Len(r1)]) + 1
              /\ SubSeq(r2[Len(r2)], 1, Len(r1[Len(r1)])) = r1[Len(r1)]

(* C17: every step that changes the run list is a step of the running      *)
(* tailer alone, nothing of the renderer or the controller moves in it,    *)
(* and it either resets the list to one empty run while opening a handle   *)
(* or appends one value to the last run or one empty run at the end.       *)
SingleWriterAppendOnly ==
    [][logs' # logs =>
          /\ dataPc = "loop"
          /\ data_running
          /\ UNCHANGED <<uiVars, ctlVars, data_running>>
          /\ \/ logs' = Some(<< <<>> >>) /\ file = NoFile /\ file' # NoFile
             \/ Extends(logs, logs') /\ file' = file]_vars

(* Two runs with values while the renderer and the controller are at work. *)
SingleWriterAppendOnlyWitness ==
    /\ logs # None
    /\ Len(logs[1]) >= 2
    /\ Samples(logs) # <<>>
    /\ uiPc = "stats"
    /\ mainPc = "join_ui"
    /\ Len(inodes) = 2

----------------------------------------------------------------------------
(* Progress of the tailer *)

(* The file at the path is not open yet or holds lines not yet read. *)
Unread ==
    /\ path # 0
    /\ \/ file # path
       \/ pos < Len(inodes[path].lines)

(* C18: with the tailer scheduled fairly and its flag set, a file that     *)
(* exists at the path is opened and every line written to it is read,      *)
(* unless the file is removed first.                                       *)
EventualIngestion == Unread ~> ~Unread

----------------------------------------------------------------------------
(* What is drawn when *)

(* C19: whenever the run list holds no sample at all, being None or made   *)
(* of empty runs only, draw_stats puts the placeholder in the stats        *)
(* window, not the statistics block.                                       *)
PlaceholderWhenNoData ==
    [][(StatsDrawn /\ Samples(logs) = <<>>)
          => statsWin'.shown = "placeholder"]_vars

(* C20: in every redraw of the chart, whatever the tailer does meanwhile,  *)
(* a series is plotted with the live marker if and only if it is, when it  *)
(* is plotted, the last run of the list being drawn; every other series    *)
(* has its index or the generic marker.                                    *)
LiveMarkerOnLastRun ==
    [][(/\ plot # None
        /\ plot' # None
        /\ Len(plot'[1].series) > Len(plot[1].series)) =>
          LET sr == plot'[1].series[Len(plot'[1].series)]
          IN  /\ sr.marker = "_," <=> sr.run = Len(Enumerated) - 1
              /\ sr.marker \in {"_,", "_.", ToString(sr.run)}]_vars

====
